---- MODULE Spec2Model ----
(***************************************************************************)
(* The duck-hunting commands of cogs/ducks_hunting_commands.py (bang,      *)
(* reload, hug, revive) as a state machine over the persisted Player       *)
(* records.  Every command invocation is a coroutine: it loads its own     *)
(* copy of the record, mutates the copy and writes the whole copy back at  *)
(* each save().  An action is the stretch of a handler between two         *)
(* interactions with the shared state (database, target interface).        *)
(***************************************************************************)
EXTENDS Integers, FiniteSets, Sequences, TLC

VARIABLES db, fr, ops, trial, pm, tk

vars == <<db, fr, ops, trial, pm, tk>>

\* What the hunting commands never touch.
aside == <<trial, pm, tk>>

(***************************************************************************)
(* Bounds of the model.                                                    *)
(***************************************************************************)
MaxOps == 2          \* command invocations in one behaviour
MaxFeatures == 2     \* conditions set on the first player's initial record
MaxLuck == 102       \* largest luck_pct tried; the smallest is 100 - MaxLuck
MaxEvents == 4       \* messages and moderator commands seen by the support cog

Players == {1, 2}    \* player records of the channel
Actors == {1}        \* players whose commands open a behaviour
Inv == {1, 2}        \* invocation slots (coroutines in flight at once)
None == 0            \* Python None: no target, no sabotager
Draws == {50, 100}   \* representative results of random.randint(1, 100)
Times == {1}         \* values of int(time.time()) seen by a command

(***************************************************************************)
(* Player records.                                                         *)
(***************************************************************************)
ZeroStats ==
  [shots_when_dead |-> 0, shots_when_wet |-> 0, shots_when_confiscated |-> 0,
   shots_when_sabotaged |-> 0, shots_when_jammed |-> 0,
   shots_with_empty_magazine |-> 0, shots_jamming_weapon |-> 0,
   bullets_used |-> 0, missed |-> 0, homing_kills |-> 0, killed |-> 0,
   murders |-> 0, got_killed |-> 0, shots_with_duck |-> 0,
   shots_stopped_by_detector |-> 0, shots_without_ducks |-> 0,
   reloads_when_confiscated |-> 0, reloads |-> 0, unneeded_reloads |-> 0,
   useless_revives |-> 0, revives |-> 0, brains_eaten |-> 0,
   max_brains_eaten_at_once |-> 0]

ZeroHugged == [when_dead |-> 0, players |-> 0, nothing |-> 0]

\* Progression Model: a step function of experience alone.
get_level_info(experience) ==
  IF experience < 10
  THEN [bullets |-> 2, magazines |-> 1, reliability |-> 50, accuracy |-> 55]
  ELSE [bullets |-> 3, magazines |-> 2, reliability |-> 75, accuracy |-> 60]

\* Channel configuration, read-only to the commands.
kill_on_miss_chance == 50

Features ==
  {"dead", "dead2", "wet", "dried", "confiscated", "sabotaged", "jammed", "empty",
   "nomag", "grease", "sand", "mirror", "sight", "homing", "detector",
   "veteran", "eaten"}

\* The record of player p with the conditions F set.
InitPlayer(p, F) ==
  LET experience == IF "veteran" \in F THEN 10 ELSE 0 IN
  [id |-> p,
   experience |-> experience,
   bullets |-> IF "empty" \in F THEN 0 ELSE get_level_info(experience).bullets,
   magazines |-> IF "nomag" \in F THEN 0 ELSE 1,
   weapon_confiscated |-> "confiscated" \in F,
   weapon_jammed |-> "jammed" \in F,
   weapon_sabotaged_by |-> IF "sabotaged" \in F THEN 2 ELSE None,
   active_powerups |->
     [dead |-> IF "dead2" \in F THEN 2 ELSE IF "dead" \in F THEN 1 ELSE 0,
      wet |-> IF "wet" \in F THEN 2 ELSE IF "dried" \in F THEN 1 ELSE 0,
      grease |-> IF "grease" \in F THEN 1 ELSE 0,
      sand |-> IF "sand" \in F THEN 1 ELSE 0,
      mirror |-> IF "mirror" \in F THEN 1 ELSE 0,
      sight |-> IF "sight" \in F THEN 1 ELSE 0,
      homing_bullets |-> IF "homing" \in F THEN 1 ELSE 0,
      detector |-> IF "detector" \in F THEN 1 ELSE 0],
   shooting_stats |->
     IF "eaten" \in F
     THEN [ZeroStats EXCEPT !.revives = 1, !.brains_eaten = 3,
                            !.max_brains_eaten_at_once = 3]
     ELSE ZeroStats,
   hugged |-> ZeroHugged]

NoPlayer == InitPlayer(None, {})

\* No chance trial made.
NoTrial == [luck_pct |-> 0, current |-> 0, result |-> FALSE, drawn |-> FALSE]

\* Discord users who write to the bot in private.
Users == {1, 2}

\* No message handled by the support cog yet.
NoEvent ==
  [kind |-> "none", user |-> 0, blocked |-> FALSE, created |-> FALSE,
   forwarded |-> FALSE, mirrored |-> FALSE]

\* PrivateMessagesSupport.__init__ and an empty forwarding category.  A
\* ticket channel is known by the id of its user (its name); webhooks are the
\* webhooks that exist, webhook_cache the ones the cog remembers.
NoSupport ==
  [blocked_ids |-> <<>>, channels |-> {}, webhooks |-> {},
   webhook_cache |-> {}, opened_support_tickets |-> [u \in Users |-> 0],
   forwarded |-> [u \in Users |-> 0], mirrored |-> [u \in Users |-> 0],
   events |-> 0, last |-> NoEvent]

\* The private messages whose handling may overlap.
Msgs == {1, 2}

\* A message not yet received: pc is the await its handler is suspended at,
\* call the caller of get_or_create_channel (1 handle_dm_message,
\* 2 handle_auto_responses), ch the channel it holds.
NoMessage == [pc |-> "idle", user |-> 0, call |-> 0, ch |-> 0]

\* No ticket channel in the forwarding category; channels lists them in the
\* order of creation.
NoTickets == [channels |-> <<>>, co |-> [m \in Msgs |-> NoMessage]]

\* A coroutine slot with no command in it.
IdleFrame ==
  [op |-> "none", pc |-> "idle", player |-> None, target |-> None, now |-> 0,
   h0 |-> NoPlayer, h |-> NoPlayer, tid |-> None, t0 |-> NoPlayer,
   t |-> NoPlayer, alias |-> FALSE, pending |-> {}, raised |-> FALSE,
   reply |-> "none", out |-> {}, rolls |-> {}, missed |-> FALSE,
   homing |-> FALSE, named |-> None, target_down |-> FALSE,
   db0 |-> [p \in Players |-> NoPlayer]]

Init ==
  /\ \E F \in SUBSET Features :
       /\ Cardinality(F) <= MaxFeatures
       /\ db = [p \in Players |-> IF p = 1 THEN InitPlayer(p, F)
                                  ELSE InitPlayer(p, {})]
  /\ fr = [i \in Inv |-> IdleFrame]
  /\ ops = 0
  /\ trial = NoTrial
  /\ pm = NoSupport
  /\ tk = NoTickets

(***************************************************************************)
(* Helpers shared by the handlers.                                         *)
(***************************************************************************)
\* db_hunter.shooting_stats[s] += 1
Stat(h, s) == [h EXCEPT !.shooting_stats[s] = @ + 1]

\* Faulty variant: the draw has to be below luck_pct.
compute_luckBelow(luck_pct, current) == current < luck_pct

\* random.randint(1, 100) gave `current`
compute_luck(luck_pct, current) == current <= luck_pct

\* Player.is_powerup_active
is_powerup_active(h, powerup) == h.active_powerups[powerup] > 0

\* A coroutine slot can take a new command.
CanStart(i) == fr[i].pc \in {"idle", "done", "failed"} /\ ops < MaxOps

\* The locals of a command at its start; db0 remembers the records the
\* command found.
NewFrame(op, p, target, now) ==
  [IdleFrame EXCEPT !.op = op, !.player = p, !.target = target,
                    !.named = target, !.now = now, !.db0 = db]

\* get_player, get_random_player: a fresh copy of the persisted record.
get_player(p) == db[p]

(***************************************************************************)
(* bang: the weapon condition gate.                                        *)
(***************************************************************************)
\* Faulty variant: the magazine is looked at before anything else.
GateEmptyFirst(h, now) ==
  IF h.bullets <= 0 THEN "empty"
  ELSE IF h.active_powerups.dead > 0 THEN "dead"
  ELSE IF h.active_powerups.wet > now THEN "wet"
  ELSE IF h.weapon_confiscated THEN "confiscated"
  ELSE IF h.weapon_sabotaged_by # None THEN "sabotaged"
  ELSE IF h.weapon_jammed THEN "jammed"
  ELSE "pass"

\* Faulty variant: an empty magazine does not stop the shot.
GateAllowsEmpty(h, now) ==
  IF h.active_powerups.dead > 0 THEN "dead"
  ELSE IF h.active_powerups.wet > now THEN "wet"
  ELSE IF h.weapon_confiscated THEN "confiscated"
  ELSE IF h.weapon_sabotaged_by # None THEN "sabotaged"
  ELSE IF h.weapon_jammed THEN "jammed"
  ELSE IF h.bullets < 0 THEN "empty"
  ELSE "pass"

\* Faulty variant: one outstanding death does not stop the shooter.
GateDeadOffByOne(h, now) ==
  IF h.active_powerups.dead > 1 THEN "dead"
  ELSE IF h.active_powerups.wet > now THEN "wet"
  ELSE IF h.weapon_confiscated THEN "confiscated"
  ELSE IF h.weapon_sabotaged_by # None THEN "sabotaged"
  ELSE IF h.weapon_jammed THEN "jammed"
  ELSE IF h.bullets <= 0 THEN "empty"
  ELSE "pass"

Gate(h, now) ==
  IF h.active_powerups.dead > 0 THEN "dead"
  ELSE IF h.active_powerups.wet > now THEN "wet"
  ELSE IF h.weapon_confiscated THEN "confiscated"
  ELSE IF h.weapon_sabotaged_by # None THEN "sabotaged"
  ELSE IF h.weapon_jammed THEN "jammed"
  ELSE IF h.bullets <= 0 THEN "empty"
  ELSE "pass"

\* Faulty variant: the sabotage detonates without jamming the weapon.
GateAbortNoJam(h, g) ==
  CASE g = "dead" -> Stat(h, "shots_when_dead")
    [] g = "wet" -> Stat(h, "shots_when_wet")
    [] g = "confiscated" -> Stat(h, "shots_when_confiscated")
    [] g = "sabotaged" ->
         [Stat(h, "shots_when_sabotaged") EXCEPT !.weapon_sabotaged_by = None]
    [] g = "jammed" -> Stat(h, "shots_when_jammed")
    [] g = "empty" -> Stat(h, "shots_with_empty_magazine")

\* Faulty variant: the sabotage detonates and stays in place.
GateAbortKeepsSabotage(h, g) ==
  CASE g = "dead" -> Stat(h, "shots_when_dead")
    [] g = "wet" -> Stat(h, "shots_when_wet")
    [] g = "confiscated" -> Stat(h, "shots_when_confiscated")
    [] g = "sabotaged" ->
         [Stat(h, "shots_when_sabotaged") EXCEPT !.weapon_jammed = TRUE]
    [] g = "jammed" -> Stat(h, "shots_when_jammed")
    [] g = "empty" -> Stat(h, "shots_with_empty_magazine")

\* What the triggered check does to db_hunter before it is saved.
GateAbort(h, g) ==
  CASE g = "dead" -> Stat(h, "shots_when_dead")
    [] g = "wet" -> Stat(h, "shots_when_wet")
    [] g = "confiscated" -> Stat(h, "shots_when_confiscated")
    [] g = "sabotaged" ->
         [Stat(h, "shots_when_sabotaged") EXCEPT !.weapon_sabotaged_by = None,
                                                 !.weapon_jammed = TRUE]
    [] g = "jammed" -> Stat(h, "shots_when_jammed")
    [] g = "empty" -> Stat(h, "shots_with_empty_magazine")

(***************************************************************************)
(* bang: jam roll, bullet, accuracy roll, homing.                          *)
(***************************************************************************)
\* Faulty variant: with grease both rolls have to succeed.
JamRollGreaseBoth(h, d1, d2) ==
  LET reliability == get_level_info(h.experience).reliability
      lucky == compute_luck(reliability, d1)
  IN IF is_powerup_active(h, "grease") \/ h.active_powerups.sand > 0
     THEN lucky /\ compute_luck(reliability, d2)
     ELSE lucky

JamRoll(h, d1, d2) ==
  LET reliability == get_level_info(h.experience).reliability
      lucky == compute_luck(reliability, d1)
  IN IF is_powerup_active(h, "grease")
     THEN lucky \/ compute_luck(reliability, d2)
     ELSE IF h.active_powerups.sand > 0
          THEN lucky /\ compute_luck(reliability, d2)
          ELSE lucky

\* Faulty variant: a charge of sand is taken without looking at the count.
JamSandUnchecked(h) ==
  IF ~is_powerup_active(h, "grease")
  THEN [h EXCEPT !.active_powerups.sand = @ - 1]
  ELSE h

JamSand(h) ==
  IF ~is_powerup_active(h, "grease") /\ h.active_powerups.sand > 0
  THEN [h EXCEPT !.active_powerups.sand = @ - 1]
  ELSE h

\* Faulty variant: the bullet is spent before the jam roll is looked at.
JamFailSpends(h) ==
  [Stat(Stat(h, "shots_jamming_weapon"), "bullets_used") EXCEPT
     !.weapon_jammed = TRUE, !.bullets = @ - 1]

JamFail(h) == [Stat(h, "shots_jamming_weapon") EXCEPT !.weapon_jammed = TRUE]

SpendBullet(h) == [Stat(h, "bullets_used") EXCEPT !.bullets = @ - 1]

\* The accuracy threshold in half points: accuracy /= 2 is a true division.
\* Faulty variant: the sight is applied before the mirror.
Threshold2SightFirst(accuracy, mirror, sight) ==
  LET base == 2 * accuracy
      sighted == IF sight THEN base + 2 * ((200 - base) \div 6) ELSE base
  IN IF mirror THEN sighted \div 2 ELSE sighted

\* Twice the threshold of the accuracy roll, for a base accuracy and the
\* modifiers in force.
Threshold2(accuracy, mirror, sight) ==
  LET base == 2 * accuracy
      mirrored == IF mirror THEN base \div 2 ELSE base
  IN IF sight THEN mirrored + 2 * ((200 - mirrored) \div 6) ELSE mirrored

Accuracy2(h) ==
  Threshold2(get_level_info(h.experience).accuracy,
             h.active_powerups.mirror > 0, h.active_powerups.sight > 0)

AimPowerups(h) ==
  LET m == IF h.active_powerups.mirror > 0
           THEN [h EXCEPT !.active_powerups.mirror = @ - 1] ELSE h
  IN IF m.active_powerups.sight > 0
     THEN [m EXCEPT !.active_powerups.sight = @ - 1] ELSE m

\* Faulty variant: the last homing bullet flies straight.
HomingNeedsTwo(h) == h.active_powerups.homing_bullets > 1

Homing(h) == h.active_powerups.homing_bullets >= 1

HomingSpend(h) ==
  IF Homing(h) THEN [h EXCEPT !.active_powerups.homing_bullets = @ - 1] ELSE h

\* Entry of the friendly-fire / murder sub-resolution.
KillBranch(missed, target) ==
  (missed /\ target = None) \/ (target # None /\ ~missed)

\* Faulty variant: a miss is counted and costs no experience.
MissPenaltyFree(h, missed, homing) ==
  IF missed
  THEN Stat(h, "missed")
  ELSE IF homing
       THEN [Stat(Stat(h, "homing_kills"), "missed") EXCEPT !.experience = @ - 2]
       ELSE h

MissPenalty(h, missed, homing) ==
  IF missed
  THEN [Stat(h, "missed") EXCEPT !.experience = @ - 2]
  ELSE IF homing
       THEN [Stat(Stat(h, "homing_kills"), "missed") EXCEPT !.experience = @ - 2]
       ELSE h

KillPenalty(h) ==
  [Stat(h, "killed") EXCEPT !.experience = @ - 15, !.weapon_confiscated = TRUE]

\* The frame of a bang that passed the gate and the jam roll; d3 is the
\* accuracy draw.
BangAim(f, hs, d3) ==
  LET hb == SpendBullet(hs)
      accuracy2 == Accuracy2(hb)
      ha == AimPowerups(hb)
      homing == Homing(ha)
      hh == HomingSpend(ha)
      missed == IF homing THEN FALSE ELSE ~compute_luck(accuracy2, 2 * d3)
      target == IF homing THEN f.player ELSE f.target
  IN [f EXCEPT !.h = hh, !.missed = missed, !.homing = homing,
               !.target = target, !.rolls = {"jam", "accuracy"}]

\* The frame of a bang at its first save or load of a victim, or at its end;
\* rdy is bot.is_ready(), d1 and d2 are the draws of the jam roll, d3 the
\* draw of the accuracy roll and d4 the draw of the kill-on-miss roll (a
\* draw is used only where the handler makes the trial).
BangFrame(p, target, rdy, now, d1, d2, d3, d4) ==
  LET f0 == NewFrame("bang", p, target, now) IN
  IF ~rdy
  THEN [f0 EXCEPT !.pc = "done", !.out = {"not_ready"}]
  ELSE
    LET h0 == get_player(p)
        f1 == [f0 EXCEPT !.h0 = h0]
        g == Gate(h0, now)
        hs == JamSand(h0)
        f2 == BangAim(f1, hs, d3)
        hm == MissPenalty(f2.h, f2.missed, f2.homing)
    IN IF g # "pass"
       THEN [f1 EXCEPT !.h = GateAbort(h0, g), !.pc = "save", !.reply = g]
       ELSE IF ~JamRoll(h0, d1, d2)
       THEN [f1 EXCEPT !.h = JamFail(hs), !.pc = "save", !.rolls = {"jam"},
                       !.reply = "jam_roll_failed"]
       ELSE IF ~KillBranch(f2.missed, f2.target)
       THEN [f2 EXCEPT !.pc = "save_first"]
       ELSE IF f2.target # None
       THEN [f2 EXCEPT !.h = KillPenalty(hm), !.pc = "load_target"]
       ELSE IF compute_luck(kill_on_miss_chance, d4)
       THEN [f2 EXCEPT !.h = KillPenalty(hm), !.rolls = @ \cup {"kill"},
                       !.pc = "load_target"]
       ELSE [f2 EXCEPT !.h = hm, !.rolls = @ \cup {"kill"}, !.pc = "save",
                       !.reply = "missed_tree"]

\* The frames a bang can reach, over the startup state, the clock and the
\* draws.
BangFrames(p, target) ==
  {BangFrame(p, target, rdy, now, d1, d2, d3, d4) :
     rdy \in BOOLEAN, now \in Times,
     d1 \in Draws, d2 \in Draws, d3 \in Draws, d4 \in Draws}

Bang(i, p, target) ==
  /\ CanStart(i)
  /\ ops' = ops + 1
  /\ \E f \in BangFrames(p, target) : fr' = [fr EXCEPT ![i] = f]
  /\ UNCHANGED <<db, aside>>

(***************************************************************************)
(* bang: the victim of a confirmed death.                                  *)
(***************************************************************************)
\* db_target.shooting_stats['got_killed'] += 1; active_powerups["dead"] += 1
Die(t) == [Stat(t, "got_killed") EXCEPT !.active_powerups.dead = @ + 1]

KillReply(f) ==
  IF f.homing THEN "homing_self_kill"
  ELSE IF f.target # None
       THEN IF f.target = f.player THEN "suicide" ELSE "murder"
       ELSE "accidental_kill"

\* The frame once db_target (the record of player v) is loaded and both
\* objects are mutated; the hunter's own record becomes db_hunter itself only
\* when the target was named.
LoadTarget(f, v) ==
  LET loaded == get_player(v)
      alias == f.target # None /\ loaded.id = f.h.id
      hm == IF f.target # None THEN Stat(f.h, "murders") ELSE f.h
      f1 == [f EXCEPT !.tid = v, !.t0 = loaded, !.alias = alias,
                      !.reply = KillReply(f)]
  IN IF alias
     THEN [f1 EXCEPT !.h = Die(hm), !.t = Die(hm), !.pc = "save"]
     ELSE IF loaded.id # f.h.id
          THEN [f1 EXCEPT !.h = hm, !.t = Die(loaded), !.pc = "gather",
                          !.pending = {"target", "hunter"}]
          ELSE [f1 EXCEPT !.h = hm, !.t = Die(loaded), !.pc = "save"]

BangLoadTarget(i) ==
  /\ fr[i].op = "bang" /\ fr[i].pc = "load_target"
  /\ IF fr[i].target = None
     THEN \E v \in Players : fr' = [fr EXCEPT ![i] = LoadTarget(fr[i], v)]
     ELSE fr' = [fr EXCEPT ![i] = LoadTarget(fr[i], fr[i].target)]
  /\ UNCHANGED <<db, ops, aside>>

(***************************************************************************)
(* save(): the whole local record replaces the persisted one.              *)
(***************************************************************************)
Emit(f) == IF f.reply = "none" THEN f.out ELSE f.out \cup {f.reply}

\* The last save of a command, followed by its reply.
Save(i) ==
  /\ fr[i].pc = "save"
  /\ db' = [db EXCEPT ![fr[i].player] = fr[i].h]
  /\ fr' = [fr EXCEPT ![i].pc = "done", ![i].out = Emit(fr[i])]
  /\ UNCHANGED <<ops, aside>>

GatherEnd(f, pending) ==
  IF pending # {} THEN [f EXCEPT !.pending = pending]
  ELSE IF f.raised THEN [f EXCEPT !.pending = pending, !.pc = "failed"]
       ELSE [f EXCEPT !.pending = pending, !.pc = "done", !.out = Emit(f)]

\* asyncio.gather(db_target.save(), db_hunter.save()): the two writes land
\* in either order.
SaveTarget(i) ==
  /\ fr[i].pc = "gather" /\ "target" \in fr[i].pending
  /\ db' = [db EXCEPT ![fr[i].tid] = fr[i].t]
  /\ fr' = [fr EXCEPT ![i] = GatherEnd(fr[i], fr[i].pending \ {"target"})]
  /\ UNCHANGED <<ops, aside>>

SaveHunter(i) ==
  /\ fr[i].pc = "gather" /\ "hunter" \in fr[i].pending
  /\ db' = [db EXCEPT ![fr[i].player] = fr[i].h]
  /\ fr' = [fr EXCEPT ![i] = GatherEnd(fr[i], fr[i].pending \ {"hunter"})]
  /\ UNCHANGED <<ops, aside>>

\* Persistence unavailable: save() raises and the command ends there.
SaveFails(i) ==
  /\ fr[i].pc \in {"save", "save_first"}
  /\ fr' = [fr EXCEPT ![i].pc = "failed", ![i].raised = TRUE]
  /\ UNCHANGED <<db, ops, aside>>

\* One save of the gather raises; the other one still runs.
GatherFails(i) ==
  /\ fr[i].pc = "gather"
  /\ \E w \in fr[i].pending :
       fr' = [fr EXCEPT ![i] = GatherEnd([fr[i] EXCEPT !.raised = TRUE],
                                         fr[i].pending \ {w})]
  /\ UNCHANGED <<db, ops, aside>>

(***************************************************************************)
(* bang: the clean hit path.                                               *)
(***************************************************************************)
BangSaveFirst(i) ==
  /\ fr[i].op = "bang" /\ fr[i].pc = "save_first"
  /\ db' = [db EXCEPT ![fr[i].player] = fr[i].h]
  /\ fr' = [fr EXCEPT ![i].pc = "query"]
  /\ UNCHANGED <<ops, aside>>

\* Faulty variant: the detector stops the shot and keeps the bullet.
DetectorStopNoRefund(h) ==
  [Stat(h, "shots_stopped_by_detector") EXCEPT
     !.active_powerups.detector = @ - 1]

DetectorStop(h) ==
  [Stat(h, "shots_stopped_by_detector") EXCEPT
     !.active_powerups.detector = @ - 1,
     !.shooting_stats.bullets_used = @ - 1,
     !.bullets = @ + 1]

NoTarget(h) == [Stat(h, "shots_without_ducks") EXCEPT !.experience = @ - 2]

\* Faulty variant: the detector check is an `if` of its own, run after a hit too.
BangTargetNoElif(f, duck) ==
  LET h == IF duck THEN Stat(f.h, "shots_with_duck") ELSE f.h
      out == IF duck THEN f.out \cup {"hit_delivered"} ELSE f.out
  IN IF h.active_powerups.detector >= 1
     THEN [f EXCEPT !.h = DetectorStop(h), !.pc = "save", !.out = out,
                    !.reply = "detector_stopped"]
     ELSE [f EXCEPT !.h = NoTarget(h), !.pc = "save", !.out = out,
                    !.reply = "no_target"]

\* Faulty variant: one detector charge is not enough to stop the shot.
BangTargetDetectorTwo(f, duck) ==
  IF duck
  THEN [f EXCEPT !.h = Stat(f.h, "shots_with_duck"), !.pc = "done",
                 !.out = @ \cup {"hit_delivered"}]
  ELSE IF f.h.active_powerups.detector > 1
       THEN [f EXCEPT !.h = DetectorStop(f.h), !.pc = "save",
                      !.reply = "detector_stopped"]
       ELSE [f EXCEPT !.h = NoTarget(f.h), !.pc = "save",
                      !.reply = "no_target"]

\* ctx.target_next_duck() answered: duck tells whether a target is pending.
BangTarget(f, duck) ==
  IF duck
  THEN [f EXCEPT !.h = Stat(f.h, "shots_with_duck"), !.pc = "done",
                 !.out = @ \cup {"hit_delivered"}]
  ELSE IF f.h.active_powerups.detector >= 1
       THEN [f EXCEPT !.h = DetectorStop(f.h), !.pc = "save",
                      !.reply = "detector_stopped"]
       ELSE [f EXCEPT !.h = NoTarget(f.h), !.pc = "save",
                      !.reply = "no_target"]

BangQuery(i) ==
  /\ fr[i].op = "bang" /\ fr[i].pc = "query"
  /\ \E duck \in BOOLEAN : fr' = [fr EXCEPT ![i] = BangTarget(fr[i], duck)]
  /\ UNCHANGED <<db, ops, aside>>

(***************************************************************************)
(* reload                                                                  *)
(***************************************************************************)
\* Faulty variant: the jam is looked at before the confiscation.
ReloadCaseJamFirst(h) ==
  IF h.weapon_jammed THEN "unjammed"
  ELSE IF h.weapon_confiscated THEN "reload_confiscated"
  ELSE IF h.bullets <= 0 /\ h.magazines >= 1 THEN "reloaded"
  ELSE IF h.bullets > 0 THEN "unneeded"
  ELSE IF h.magazines <= 0 THEN "no_magazines"
  ELSE "none"

\* Faulty variant: a reload is granted with no magazine left.
ReloadCaseNoMagazine(h) ==
  IF h.weapon_confiscated THEN "reload_confiscated"
  ELSE IF h.weapon_jammed THEN "unjammed"
  ELSE IF h.bullets <= 0 /\ h.magazines >= 0 THEN "reloaded"
  ELSE IF h.bullets > 0 THEN "unneeded"
  ELSE IF h.magazines <= 0 THEN "no_magazines"
  ELSE "none"

ReloadCase(h) ==
  IF h.weapon_confiscated THEN "reload_confiscated"
  ELSE IF h.weapon_jammed THEN "unjammed"
  ELSE IF h.bullets <= 0 /\ h.magazines >= 1 THEN "reloaded"
  ELSE IF h.bullets > 0 THEN "unneeded"
  ELSE IF h.magazines <= 0 THEN "no_magazines"
  ELSE "none"

ReloadEffect(h, c) ==
  CASE c = "reload_confiscated" -> Stat(h, "reloads_when_confiscated")
    [] c = "unjammed" -> [h EXCEPT !.weapon_jammed = FALSE]
    [] c = "reloaded" ->
         [Stat(h, "reloads") EXCEPT
            !.magazines = @ - 1,
            !.bullets = get_level_info(h.experience).bullets]
    [] c = "unneeded" -> Stat(h, "unneeded_reloads")
    [] c = "no_magazines" -> Stat(h, "unneeded_reloads")
    [] OTHER -> h

Reload(i, p) ==
  /\ CanStart(i)
  /\ ops' = ops + 1
  /\ LET h0 == get_player(p)
         c == ReloadCase(h0)
         f == [NewFrame("reload", p, None, 0) EXCEPT !.h0 = h0]
     IN fr' = [fr EXCEPT ![i] =
                 IF c = "none" THEN [f EXCEPT !.h = h0, !.pc = "done"]
                 ELSE [f EXCEPT !.h = ReloadEffect(h0, c), !.pc = "save",
                                !.reply = c]]
  /\ UNCHANGED <<db, aside>>

(***************************************************************************)
(* hug                                                                     *)
(***************************************************************************)
HugStat(h, s) == [h EXCEPT !.hugged[s] = @ + 1]

Hug(i, p, target) ==
  /\ CanStart(i)
  /\ ops' = ops + 1
  /\ \E rdy \in BOOLEAN :
       LET f0 == NewFrame("hug", p, target, 0)
           h0 == get_player(p)
           f1 == [f0 EXCEPT !.h0 = h0, !.h = h0]
       IN fr' = [fr EXCEPT ![i] =
                   IF ~rdy THEN [f0 EXCEPT !.pc = "done", !.out = {"not_ready"}]
                   ELSE IF h0.active_powerups.dead > 0
                        THEN [f1 EXCEPT !.h = HugStat(h0, "when_dead"),
                                        !.pc = "save", !.reply = "hug_dead"]
                        ELSE IF target # None
                             THEN [f1 EXCEPT !.h = HugStat(h0, "players"),
                                             !.pc = "save",
                                             !.reply = "hugged_player"]
                             ELSE [f1 EXCEPT !.pc = "query"]]
  /\ UNCHANGED <<db, aside>>

\* Faulty variant: a delivered hug is counted as a hug on nothing too.
HugTargetCountsDuck(f, duck) ==
  IF duck
  THEN [f EXCEPT !.h = HugStat(f.h, "nothing"), !.pc = "save",
                 !.out = @ \cup {"hug_delivered"}]
  ELSE [f EXCEPT !.h = HugStat(f.h, "nothing"), !.pc = "save",
                 !.out = @ \cup {"hugged_nothing"}]

\* The reply of a hug on nothing is sent before the record is saved.
HugTarget(f, duck) ==
  IF duck
  THEN [f EXCEPT !.pc = "done", !.out = @ \cup {"hug_delivered"}]
  ELSE [f EXCEPT !.h = HugStat(f.h, "nothing"), !.pc = "save",
                 !.out = @ \cup {"hugged_nothing"}]

HugQuery(i) ==
  /\ fr[i].op = "hug" /\ fr[i].pc = "query"
  /\ \E duck \in BOOLEAN : fr' = [fr EXCEPT ![i] = HugTarget(fr[i], duck)]
  /\ UNCHANGED <<db, ops, aside>>

\* ctx.target_next_duck() raises: neither handler catches it, so the command
\* ends there with what it had saved.
QueryFails(i) ==
  /\ fr[i].op \in {"bang", "hug"} /\ fr[i].pc = "query"
  /\ fr' = [fr EXCEPT ![i].pc = "failed", ![i].raised = TRUE,
                       ![i].target_down = TRUE]
  /\ UNCHANGED <<db, ops, aside>>

(***************************************************************************)
(* revive                                                                  *)
(***************************************************************************)
Max(a, b) == IF a >= b THEN a ELSE b

\* Faulty variant: a revive takes one death off the count.
ReviveEffectOneDeath(h) ==
  LET dead_times == h.active_powerups.dead IN
  IF dead_times = 0
  THEN Stat(h, "useless_revives")
  ELSE [Stat(h, "revives") EXCEPT
          !.active_powerups.dead = @ - 1,
          !.shooting_stats.brains_eaten = @ + 1,
          !.shooting_stats.max_brains_eaten_at_once = Max(@, 1)]

\* Faulty variant: the running maximum is overwritten by the last meal.
ReviveEffectLastMeal(h) ==
  LET dead_times == h.active_powerups.dead IN
  IF dead_times = 0
  THEN Stat(h, "useless_revives")
  ELSE [Stat(h, "revives") EXCEPT
          !.active_powerups.dead = 0,
          !.shooting_stats.brains_eaten = @ + dead_times,
          !.shooting_stats.max_brains_eaten_at_once = dead_times]

ReviveEffect(h) ==
  LET dead_times == h.active_powerups.dead IN
  IF dead_times = 0
  THEN Stat(h, "useless_revives")
  ELSE [Stat(h, "revives") EXCEPT
          !.active_powerups.dead = 0,
          !.shooting_stats.brains_eaten = @ + dead_times,
          !.shooting_stats.max_brains_eaten_at_once = Max(@, dead_times)]

Revive(i, p) ==
  /\ CanStart(i)
  /\ ops' = ops + 1
  /\ LET h0 == get_player(p)
         f == [NewFrame("revive", p, None, 0) EXCEPT !.h0 = h0]
     IN fr' = [fr EXCEPT ![i] =
                 [f EXCEPT !.h = ReviveEffect(h0), !.pc = "save",
                           !.reply = IF h0.active_powerups.dead = 0
                                     THEN "already_alive" ELSE "revived"]]
  /\ UNCHANGED <<db, aside>>

(***************************************************************************)
(* Specifications.                                                         *)
(***************************************************************************)
Targets == Players \cup {None}

\* A command of one of the players A arrives.
Start(i, A) ==
  \E p \in A :
    \/ \E target \in Targets : Bang(i, p, target)
    \/ Reload(i, p)
    \/ \E target \in Targets : Hug(i, p, target)
    \/ Revive(i, p)

Step(i) ==
  \/ BangLoadTarget(i)
  \/ BangSaveFirst(i)
  \/ BangQuery(i)
  \/ HugQuery(i)
  \/ Save(i)
  \/ SaveTarget(i)
  \/ SaveHunter(i)

\* One command at a time, each run to its end; persistence always answers.
Next == Start(1, Actors) \/ Step(1)

Spec == Init /\ [][Next]_vars

\* One command at a time; any save may raise.
NextFail == Start(1, Actors) \/ Step(1) \/ SaveFails(1) \/ GatherFails(1)

SpecFail == Init /\ [][NextFail]_vars

\* One command at a time; the lookup of the pending target may raise.
NextTarget == Start(1, Actors) \/ Step(1) \/ QueryFails(1)

SpecTarget == Init /\ [][NextTarget]_vars

\* Commands of the players interleave at their awaits.
NextConc ==
  \/ fr[2].pc \in {"idle", "done"} /\ Start(1, Actors)
  \/ fr[1].pc \notin {"idle", "done"} /\ Start(2, Players)
  \/ \E i \in Inv : Step(i)

\* The initial records from which interleavings are explored.
ConcScenarios ==
  {{}, {"empty"}, {"empty", "nomag"}, {"detector"}, {"dead"}, {"jammed"},
   {"homing"}}

InitConc ==
  /\ \E F \in ConcScenarios :
       db = [p \in Players |-> IF p = 1 THEN InitPlayer(p, F)
                                ELSE InitPlayer(p, {})]
  /\ fr = [i \in Inv |-> IdleFrame]
  /\ ops = 0
  /\ trial = NoTrial
  /\ pm = NoSupport
  /\ tk = NoTickets

SpecConc == InitConc /\ [][NextConc]_vars

(***************************************************************************)
(* One bang from each initial record, with the draws of its trials kept.   *)
(***************************************************************************)
NoShot == [d1 |-> 0, d2 |-> 0, d3 |-> 0, d4 |-> 0, fired |-> FALSE]

InitShot ==
  /\ \E F \in SUBSET Features :
       /\ Cardinality(F) <= MaxFeatures
       /\ db = [p \in Players |-> IF p = 1 THEN InitPlayer(p, F)
                                   ELSE InitPlayer(p, {})]
  /\ fr = [i \in Inv |-> IdleFrame]
  /\ ops = 0
  /\ trial = NoShot
  /\ pm = NoSupport
  /\ tk = NoTickets

\* bang by a ready bot.
Shot(p, target) ==
  /\ ops = 0
  /\ ops' = ops + 1
  /\ \E now \in Times, d1 \in Draws, d2 \in Draws, d3 \in Draws, d4 \in Draws :
       /\ fr' = [fr EXCEPT ![1] =
                   BangFrame(p, target, TRUE, now, d1, d2, d3, d4)]
       /\ trial' = [d1 |-> d1, d2 |-> d2, d3 |-> d3, d4 |-> d4, fired |-> TRUE]
  /\ UNCHANGED <<db, pm, tk>>

NextShot ==
  \/ \E p \in Actors, target \in Targets : Shot(p, target)
  \/ BangLoadTarget(1)
  \/ BangSaveFirst(1)
  \/ BangQuery(1)
  \/ Save(1)
  \/ SaveTarget(1)
  \/ SaveHunter(1)

SpecShot == InitShot /\ [][NextShot]_vars

(***************************************************************************)
(* The chance trial on its own: compute_luck called with a fixed luck_pct, *)
(* any number of times.                                                    *)
(***************************************************************************)
LuckPcts == (100 - MaxLuck)..MaxLuck

\* The values random.randint(1, 100) returns.
LuckDraws == 1..100

InitLuck ==
  /\ db = [p \in Players |-> InitPlayer(p, {})]
  /\ fr = [i \in Inv |-> IdleFrame]
  /\ ops = 0
  /\ \E luck_pct \in LuckPcts : trial = [NoTrial EXCEPT !.luck_pct = luck_pct]
  /\ pm = NoSupport
  /\ tk = NoTickets

ComputeLuck ==
  /\ \E current \in LuckDraws :
       trial' = [trial EXCEPT !.current = current,
                              !.result = compute_luck(trial.luck_pct, current),
                              !.drawn = TRUE]
  /\ UNCHANGED <<db, fr, ops, pm, tk>>

NextLuck == ComputeLuck

SpecLuck == InitLuck /\ [][NextLuck]_vars

(***************************************************************************)
(* Private messages support: the messages sent to the bot in private are   *)
(* relayed to one ticket channel per user.  s is the state of the cog and  *)
(* of the forwarding category.                                             *)
(***************************************************************************)
\* x in l, for a Python list l
InList(x, l) == \E k \in 1..Len(l) : l[k] = x

\* handle_ticket_opening: db_user.opened_support_tickets += 1
handle_ticket_opening(s, user) ==
  [s EXCEPT !.opened_support_tickets[user] = @ + 1]

\* The ticket channel of the user, created with its webhook when the
\* category has none of that name.
get_or_create_channel(s, user) ==
  IF user \notin s.channels
  THEN handle_ticket_opening(
         [s EXCEPT !.channels = @ \cup {user}, !.webhooks = @ \cup {user},
                   !.webhook_cache = @ \cup {user}, !.last.created = TRUE],
         user)
  ELSE IF user \notin s.webhook_cache
       THEN [s EXCEPT !.webhook_cache = @ \cup {user}]
       ELSE s

handle_dm_message(s, user) ==
  IF InList(user, s.blocked_ids)
  THEN s
  ELSE LET s1 == get_or_create_channel(s, user)
       IN [s1 EXCEPT !.forwarded[user] = @ + 1, !.last.forwarded = TRUE]

\* invite: the content matches invites_regex.
handle_auto_responses(s, user, invite) ==
  LET s1 == get_or_create_channel(s, user)
  IN IF invite
     THEN [s1 EXCEPT !.mirrored[user] = @ + 1, !.last.mirrored = TRUE]
     ELSE s1

\* on_message for a message a user (not a bot) sent in private; valid: the
\* message is a command.
on_message(user, valid, invite) ==
  /\ pm.events < MaxEvents
  /\ LET s0 == [pm EXCEPT !.events = @ + 1,
                          !.last = [NoEvent EXCEPT
                                      !.kind = IF valid THEN "command" ELSE "dm",
                                      !.user = user,
                                      !.blocked = InList(user, pm.blocked_ids)]]
     IN pm' = IF valid THEN s0
              ELSE handle_auto_responses(handle_dm_message(s0, user), user,
                                         invite)
  /\ UNCHANGED <<db, fr, ops, trial, tk>>

\* private_support block, sent in the ticket channel of the user.
block(user) ==
  /\ pm.events < MaxEvents
  /\ user \in pm.channels
  /\ pm' = [pm EXCEPT !.events = @ + 1,
                      !.blocked_ids = Append(@, user),
                      !.last = [NoEvent EXCEPT !.kind = "block", !.user = user]]
  /\ UNCHANGED <<db, fr, ops, trial, tk>>

clear_caches(s, user) == [s EXCEPT !.webhook_cache = @ \ {user}]

\* private_support close or close_silent, sent in the ticket channel of the
\* user: the caches are cleared and the channel deleted, its webhook with it.
close(user) ==
  /\ pm.events < MaxEvents
  /\ user \in pm.channels
  /\ pm' = [clear_caches(pm, user) EXCEPT
              !.events = @ + 1,
              !.channels = @ \ {user}, !.webhooks = @ \ {user},
              !.last = [NoEvent EXCEPT !.kind = "close", !.user = user]]
  /\ UNCHANGED <<db, fr, ops, trial, tk>>

InitSupport ==
  /\ db = [p \in Players |-> InitPlayer(p, {})]
  /\ fr = [i \in Inv |-> IdleFrame]
  /\ ops = 0
  /\ trial = NoTrial
  /\ pm = NoSupport
  /\ tk = NoTickets

NextSupport ==
  \E user \in Users :
    \/ \E valid \in BOOLEAN, invite \in BOOLEAN : on_message(user, valid, invite)
    \/ block(user)
    \/ close(user)

SpecSupport == InitSupport /\ [][NextSupport]_vars

(***************************************************************************)
(* Private messages handled at the same time: get_or_create_channel step   *)
(* by step, each action running from one await to the next.                *)
(***************************************************************************)
\* A ticket channel just created: no webhook yet, no notice sent.
NewChannel(user) ==
  [user |-> user, webhook |-> FALSE, cached |-> FALSE, notices |-> 0]

\* The channels of the category named with the id of the user.
ChannelsOf(user) ==
  {k \in DOMAIN tk.channels : tk.channels[k].user = user}

\* discord.utils.get(forwarding_category.text_channels, name=str(user.id)):
\* the first channel of that name, 0 when there is none.
FindChannel(user) ==
  IF ChannelsOf(user) = {} THEN 0
  ELSE CHOOSE k \in ChannelsOf(user) : \A l \in ChannelsOf(user) : k <= l

\* on_message for a private message that is no command: handle_dm_message
\* runs up to the first await of get_or_create_channel.
dm_received(m, user) ==
  /\ tk.co[m].pc = "idle"
  /\ tk' = [tk EXCEPT !.co[m] = [NoMessage EXCEPT !.pc = "lookup",
                                                  !.user = user, !.call = 1]]
  /\ UNCHANGED <<db, fr, ops, trial, pm>>

\* After get_forwarding_category: the lookup by name and the branch taken.
lookup_channel(m) ==
  /\ tk.co[m].pc = "lookup"
  /\ LET k == FindChannel(tk.co[m].user)
     IN tk' = IF k = 0 THEN [tk EXCEPT !.co[m].pc = "create"]
              ELSE IF ~tk.channels[k].cached
                   THEN [tk EXCEPT !.co[m].pc = "recover", !.co[m].ch = k]
                   ELSE [tk EXCEPT !.co[m].pc = "got", !.co[m].ch = k]
  /\ UNCHANGED <<db, fr, ops, trial, pm>>

\* forwarding_category.create_text_channel answers: the channel exists and is
\* in the category.
create_text_channel(m) ==
  /\ tk.co[m].pc = "create"
  /\ tk' = [tk EXCEPT !.channels = Append(@, NewChannel(tk.co[m].user)),
                      !.co[m].pc = "webhook",
                      !.co[m].ch = Len(tk.channels) + 1]
  /\ UNCHANGED <<db, fr, ops, trial, pm>>

\* channel.create_webhook is carried out.
create_webhook(m) ==
  /\ tk.co[m].pc = "webhook"
  /\ tk' = [tk EXCEPT !.channels[tk.co[m].ch].webhook = TRUE,
                      !.co[m].pc = "cache"]
  /\ UNCHANGED <<db, fr, ops, trial, pm>>

\* create_webhook answers: self.webhook_cache[channel] = webhook
cache_webhook(m) ==
  /\ tk.co[m].pc = "cache"
  /\ tk' = [tk EXCEPT !.channels[tk.co[m].ch].cached = TRUE,
                      !.co[m].pc = "opening"]
  /\ UNCHANGED <<db, fr, ops, trial, pm>>

\* handle_ticket_opening sends the notice; the channel is returned.
ticket_opening(m) ==
  /\ tk.co[m].pc = "opening"
  /\ tk' = [tk EXCEPT !.channels[tk.co[m].ch].notices = @ + 1,
                      !.co[m].pc = "got"]
  /\ UNCHANGED <<db, fr, ops, trial, pm>>

\* webhook = (await channel.webhooks())[0]: an IndexError when the channel
\* has no webhook yet.
recover_webhook(m) ==
  /\ tk.co[m].pc = "recover"
  /\ tk' = IF tk.channels[tk.co[m].ch].webhook
           THEN [tk EXCEPT !.channels[tk.co[m].ch].cached = TRUE,
                           !.co[m].pc = "got"]
           ELSE [tk EXCEPT !.co[m].pc = "failed"]
  /\ UNCHANGED <<db, fr, ops, trial, pm>>

\* The caller goes on with the channel: handle_dm_message forwards the
\* message and handle_auto_responses asks for the channel again;
\* handle_auto_responses ends the handling.
forward_message(m) ==
  /\ tk.co[m].pc = "got"
  /\ tk' = IF tk.co[m].call = 1
           THEN [tk EXCEPT !.co[m].pc = "lookup", !.co[m].call = 2,
                           !.co[m].ch = 0]
           ELSE [tk EXCEPT !.co[m].pc = "done"]
  /\ UNCHANGED <<db, fr, ops, trial, pm>>

InitTicket ==
  /\ db = [p \in Players |-> InitPlayer(p, {})]
  /\ fr = [i \in Inv |-> IdleFrame]
  /\ ops = 0
  /\ trial = NoTrial
  /\ pm = NoSupport
  /\ tk = NoTickets

NextTicket ==
  \E m \in Msgs :
    \/ \E user \in Users : dm_received(m, user)
    \/ lookup_channel(m)
    \/ create_text_channel(m)
    \/ create_webhook(m)
    \/ cache_webhook(m)
    \/ ticket_opening(m)
    \/ recover_webhook(m)
    \/ forward_message(m)

SpecTicket == InitTicket /\ [][NextTicket]_vars

(***************************************************************************)
(* Properties.  A command in slot i is described by its frame: h0 is the   *)
(* record as loaded, out the outcomes sent to the player, rolls the trials *)
(* made, tid the victim whose record was loaded.  A bang or hug sent while *)
(* the bot is starting up is answered "not_ready" before any record is     *)
(* read; the properties about resolved attempts are about the others.      *)
(***************************************************************************)
BangOutcomes ==
  {"not_ready", "dead", "wet", "confiscated", "sabotaged", "jammed", "empty",
   "jam_roll_failed", "missed_tree", "homing_self_kill", "suicide", "murder",
   "accidental_kill", "hit_delivered", "detector_stopped", "no_target"}

DoneBang(i) == fr[i].op = "bang" /\ fr[i].pc = "done"

\* A finished bang that got past the startup check.
Resolved(i) == DoneBang(i) /\ fr[i].out # {"not_ready"}

\* The persisted record of the player of slot i.
Persisted(i) == db[fr[i].player]

\* C1: every bang attempt ends with exactly one outcome of the outcome set,
\* and sends none before it ends.
C1_OneOutcome ==
  \A i \in Inv :
    fr[i].op = "bang" =>
      /\ fr[i].pc = "done" =>
           Cardinality(fr[i].out) = 1 /\ fr[i].out \subseteq BangOutcomes
      /\ fr[i].pc # "done" => fr[i].out = {}

C1_Witness ==
  /\ DoneBang(1) /\ fr[1].out = {"accidental_kill"}
  /\ fr[1].named = None /\ fr[1].missed

\* The gate conditions in the order the claim gives them, with the statistic
\* each one counts.
GateOrder == <<"dead", "wet", "confiscated", "sabotaged", "jammed", "empty">>

GateStat ==
  [dead |-> "shots_when_dead", wet |-> "shots_when_wet",
   confiscated |-> "shots_when_confiscated",
   sabotaged |-> "shots_when_sabotaged", jammed |-> "shots_when_jammed",
   empty |-> "shots_with_empty_magazine"]

GateHolds(h, now, c) ==
  CASE c = "dead" -> h.active_powerups.dead > 0
    [] c = "wet" -> h.active_powerups.wet > now
    [] c = "confiscated" -> h.weapon_confiscated
    [] c = "sabotaged" -> h.weapon_sabotaged_by # None
    [] c = "jammed" -> h.weapon_jammed
    [] c = "empty" -> h.bullets <= 0

\* Position k is the first condition of the order that holds.
FirstHolds(h, now, k) ==
  /\ GateHolds(h, now, GateOrder[k])
  /\ \A j \in 1..(k - 1) : ~GateHolds(h, now, GateOrder[j])

\* C2: a bang that is not stopped at startup ends with the outcome of the
\* first gate condition that holds, in the order dead, wet, confiscated,
\* sabotaged, jammed, empty; only that condition's statistic is incremented
\* (the sabotage also clears itself and jams), no trial is made, no bullet is
\* spent and no target is touched.  A dead player with no bullets gets "dead".
C2_GateOrder ==
  \A i \in Inv :
    /\ Resolved(i) =>
         \A k \in 1..Len(GateOrder) :
           FirstHolds(fr[i].h0, fr[i].now, k) =>
             LET c == GateOrder[k]
                 h0 == fr[i].h0
                 counted == [h0 EXCEPT !.shooting_stats[GateStat[c]] = @ + 1]
             IN /\ fr[i].out = {c}
                /\ fr[i].rolls = {}
                /\ fr[i].tid = None
                /\ Persisted(i) =
                     IF c = "sabotaged"
                     THEN [counted EXCEPT !.weapon_sabotaged_by = None,
                                          !.weapon_jammed = TRUE]
                     ELSE counted
    /\ (DoneBang(i) /\ fr[i].out = {"empty"}) =>
         fr[i].h0.active_powerups.dead = 0

C2_Witness ==
  /\ Resolved(1)
  /\ fr[1].h0.active_powerups.dead > 0 /\ fr[1].h0.bullets = 0
  /\ fr[1].out = {"dead"}
  /\ Persisted(1).shooting_stats.shots_when_dead = 1

\* C3: a failed jam roll leaves the persisted player jammed, with one more
\* shots_jamming_weapon, and with the bullets and bullets_used it had.
C3_JamKeepsBullet ==
  \A i \in Inv :
    (DoneBang(i) /\ fr[i].out = {"jam_roll_failed"}) =>
      /\ Persisted(i).weapon_jammed
      /\ Persisted(i).shooting_stats.shots_jamming_weapon
           = fr[i].h0.shooting_stats.shots_jamming_weapon + 1
      /\ Persisted(i).bullets = fr[i].h0.bullets
      /\ Persisted(i).shooting_stats.bullets_used
           = fr[i].h0.shooting_stats.bullets_used

C3_Witness ==
  /\ DoneBang(1) /\ fr[1].out = {"jam_roll_failed"}
  /\ fr[1].h0.bullets > 0 /\ ~fr[1].h0.weapon_jammed
  /\ Persisted(1).weapon_jammed

\* C4 as claimed: every bang that reaches the accuracy roll ends with one
\* bullet less, the detector-stopped path included.
C4_Original ==
  \A i \in Inv :
    (DoneBang(i) /\ "accuracy" \in fr[i].rolls) =>
      Persisted(i).bullets = fr[i].h0.bullets - 1

\* C4: every bang that reaches the accuracy roll ends with one bullet less,
\* except on the detector-stopped path, where the bullet is given back and
\* the bullets are what they were.
C4_BulletAccounting ==
  \A i \in Inv :
    (DoneBang(i) /\ "accuracy" \in fr[i].rolls) =>
      Persisted(i).bullets =
        IF fr[i].out = {"detector_stopped"} THEN fr[i].h0.bullets
        ELSE fr[i].h0.bullets - 1

C4_Witness ==
  /\ DoneBang(1) /\ "accuracy" \in fr[1].rolls
  /\ fr[1].out = {"detector_stopped"}
  /\ Persisted(1).bullets = fr[1].h0.bullets

\* A bang that ended, with its reply or with a save raising.
EndedBang(i) == fr[i].op = "bang" /\ fr[i].pc \in {"done", "failed"}

\* C5: when a bang resolves a death of another player and a save may fail,
\* the command ends with both records written (victim dead once more, shooter
\* confiscated and charged) or with neither.
C5_FriendlyFireAtomic ==
  \A i \in Inv :
    (EndedBang(i) /\ fr[i].tid # None /\ fr[i].tid # fr[i].player) =>
      \/ /\ db[fr[i].tid].active_powerups.dead
              = fr[i].t0.active_powerups.dead + 1
         /\ Persisted(i).weapon_confiscated
         /\ Persisted(i).experience = fr[i].h.experience
      \/ /\ db[fr[i].tid] = fr[i].t0
         /\ Persisted(i) = fr[i].h0

\* C6: after a bang that resolved a death, the persisted shooter is
\* confiscated and 15 experience lower (beside the 2 of a miss or a homing
\* bullet), and the persisted victim has one more death and one more
\* got_killed, whether the victim is another player or the shooter.
C6_DeathRecorded ==
  \A i \in Inv :
    (DoneBang(i) /\ fr[i].tid # None) =>
      /\ Persisted(i).weapon_confiscated
      /\ Persisted(i).experience
           = fr[i].h0.experience - 15
               - (IF fr[i].missed \/ fr[i].homing THEN 2 ELSE 0)
      /\ db[fr[i].tid].active_powerups.dead
           = fr[i].t0.active_powerups.dead + 1
      /\ db[fr[i].tid].shooting_stats.got_killed
           = fr[i].t0.shooting_stats.got_killed + 1

\* A bang whose loaded record gets it past the dead, wet and confiscated
\* checks.
ReachesSabotageCheck(i) ==
  /\ fr[i].op = "bang" /\ fr[i].pc # "idle" /\ fr[i].out # {"not_ready"}
  /\ fr[i].h0.active_powerups.dead = 0
  /\ ~(fr[i].h0.active_powerups.wet > fr[i].now)
  /\ ~fr[i].h0.weapon_confiscated

\* C7 as claimed: a sabotage set when the bang is made is cleared, and the
\* weapon jammed, whatever else holds of the player.
C7_Original ==
  \A i \in Inv :
    (Resolved(i) /\ fr[i].h0.weapon_sabotaged_by # None) =>
      /\ Persisted(i).weapon_sabotaged_by = None
      /\ Persisted(i).weapon_jammed

\* C7: a sabotage set when the bang is made is cleared, and the weapon jammed
\* in the same write, whether or not the weapon was jammed or empty, when the
\* player is not dead, not wet and the weapon not confiscated; a bang stopped
\* by one of these three checks leaves the sabotage set.
C7_SabotageCleared ==
  \A i \in Inv :
    /\ (ReachesSabotageCheck(i) /\ fr[i].h0.weapon_sabotaged_by # None) =>
         /\ fr[i].pc = "done" =>
              /\ fr[i].out = {"sabotaged"}
              /\ Persisted(i).weapon_sabotaged_by = None
              /\ Persisted(i).weapon_jammed
         /\ Persisted(i).weapon_sabotaged_by = None
              <=> (fr[i].pc = "done" /\ Persisted(i).weapon_jammed)
    /\ (Resolved(i) /\ ~ReachesSabotageCheck(i)) =>
         Persisted(i).weapon_sabotaged_by = fr[i].h0.weapon_sabotaged_by

C7_Witness ==
  /\ Resolved(1) /\ fr[1].h0.weapon_sabotaged_by # None
  /\ fr[1].h0.bullets = 0 /\ ~fr[1].h0.weapon_jammed
  /\ Persisted(1).weapon_sabotaged_by = None /\ Persisted(1).weapon_jammed

\* The weapon is jammed and carries no sabotage.
PlainJam(h) == h.weapon_jammed /\ h.weapon_sabotaged_by = None

\* C8: the bang that detonates a sabotage leaves a plain jam; bang, hug and
\* revive keep a plain jam; a later bang of that player, the weapon still
\* jammed, is answered "jammed" and counted in shots_when_jammed only; and no
\* record counts more detonations than the one sabotage it started with.
C8_SabotageSingleUse ==
  /\ \A i \in Inv :
       /\ (Resolved(i) /\ fr[i].out = {"sabotaged"}) =>
            /\ PlainJam(Persisted(i))
            /\ Persisted(i).shooting_stats.shots_when_sabotaged
                 = fr[i].h0.shooting_stats.shots_when_sabotaged + 1
       /\ (fr[i].pc = "done" /\ fr[i].op \in {"bang", "hug", "revive"}
             /\ fr[i].out # {"not_ready"} /\ PlainJam(fr[i].h0)) =>
            PlainJam(Persisted(i))
       /\ (Resolved(i) /\ PlainJam(fr[i].h0)
             /\ fr[i].h0.shooting_stats.shots_when_sabotaged >= 1) =>
            /\ fr[i].out = {"jammed"}
            /\ Persisted(i).shooting_stats.shots_when_jammed
                 = fr[i].h0.shooting_stats.shots_when_jammed + 1
            /\ Persisted(i).shooting_stats.shots_when_sabotaged
                 = fr[i].h0.shooting_stats.shots_when_sabotaged
  /\ \A p \in Players : db[p].shooting_stats.shots_when_sabotaged <= 1

C8_Witness ==
  /\ Resolved(1) /\ fr[1].out = {"jammed"}
  /\ fr[1].h0.shooting_stats.shots_when_sabotaged = 1
  /\ Persisted(1).shooting_stats.shots_when_jammed = 1
  /\ Persisted(1).shooting_stats.shots_when_sabotaged = 1

\* C9: in every interleaving of bang, reload, hug and revive, no persisted
\* record has negative bullets or magazines.
C9_NonNegative ==
  \A p \in Players : db[p].bullets >= 0 /\ db[p].magazines >= 0

\* Two shots of one player that both loaded the record before either saved.
C9_Witness ==
  /\ DoneBang(1) /\ DoneBang(2) /\ fr[1].player = fr[2].player
  /\ fr[1].h0 = fr[2].h0
  /\ "accuracy" \in fr[1].rolls /\ "accuracy" \in fr[2].rolls
  /\ fr[1].h0.bullets = 2 /\ Persisted(1).bullets = 1

\* C10: the death count is never negative, and a bang or a hug of a player
\* whose count is positive is answered "dead": no trial, no bullet, no victim,
\* nothing delivered, and the persisted record differs from the loaded one by
\* the shots_when_dead (bang) or hugged when_dead (hug) count alone.
C10_DeadBlocks ==
  /\ \A p \in Players : db[p].active_powerups.dead >= 0
  /\ \A i \in Inv :
       (fr[i].pc = "done" /\ fr[i].out # {"not_ready"}
          /\ fr[i].h0.active_powerups.dead > 0) =>
         /\ fr[i].op = "bang" =>
              /\ fr[i].out = {"dead"}
              /\ fr[i].rolls = {} /\ fr[i].tid = None
              /\ Persisted(i) =
                   [fr[i].h0 EXCEPT !.shooting_stats.shots_when_dead = @ + 1]
         /\ fr[i].op = "hug" =>
              /\ fr[i].out = {"hug_dead"}
              /\ Persisted(i) = [fr[i].h0 EXCEPT !.hugged.when_dead = @ + 1]

C10_Witness ==
  /\ Resolved(1) /\ fr[1].h0.active_powerups.dead > 0
  /\ fr[1].h0.bullets > 0 /\ fr[1].h0.shooting_stats.killed = 1
  /\ fr[1].out = {"dead"}

\* Bullets a finished command took from the record it loaded, and shots it
\* counted as used.
Spent(i) == fr[i].h0.bullets - fr[i].h.bullets

Used(i) ==
  fr[i].h.shooting_stats.bullets_used - fr[i].h0.shooting_stats.bullets_used

\* C11: two bangs of one player that ran concurrently leave the persisted
\* bullets lower, and bullets_used higher, by the total the two consumed.
C11_NoDoubleSpend ==
  (/\ Resolved(1) /\ Resolved(2)
   /\ fr[1].player = fr[2].player
   /\ fr[1].h0 = fr[2].h0) =>
    /\ Persisted(1).bullets = fr[1].h0.bullets - Spent(1) - Spent(2)
    /\ Persisted(1).shooting_stats.bullets_used =
         fr[1].h0.shooting_stats.bullets_used + Used(1) + Used(2)

\* A finished bang that took the clean-hit path and found no target pending.
CleanNoTarget(i) ==
  DoneBang(i) /\ fr[i].out \in {{"detector_stopped"}, {"no_target"}}

\* C12: a bang on the clean-hit path with no target pending and a detector
\* count of at least 1 is stopped by the detector: the persisted record has
\* detector one lower, bullets and bullets_used as before the shot,
\* shots_stopped_by_detector one higher, and the experience and
\* shots_without_ducks it had.
C12_DetectorStop ==
  \A i \in Inv :
    (CleanNoTarget(i) /\ fr[i].h0.active_powerups.detector >= 1) =>
      /\ fr[i].out = {"detector_stopped"}
      /\ Persisted(i).active_powerups.detector =
           fr[i].h0.active_powerups.detector - 1
      /\ Persisted(i).bullets = fr[i].h0.bullets
      /\ Persisted(i).shooting_stats.bullets_used =
           fr[i].h0.shooting_stats.bullets_used
      /\ Persisted(i).shooting_stats.shots_stopped_by_detector =
           fr[i].h0.shooting_stats.shots_stopped_by_detector + 1
      /\ Persisted(i).experience = fr[i].h0.experience
      /\ Persisted(i).shooting_stats.shots_without_ducks =
           fr[i].h0.shooting_stats.shots_without_ducks

C12_Witness ==
  /\ CleanNoTarget(1) /\ fr[1].h0.active_powerups.detector = 1
  /\ fr[1].h0.bullets = 1 /\ Persisted(1).bullets = 1
  /\ Persisted(1).active_powerups.detector = 0

\* A finished bang with no named target and no homing bullet whose jam roll
\* succeeded, whose accuracy roll failed and whose kill-on-miss roll failed.
PureMiss(i) ==
  /\ DoneBang(i) /\ fr[i].named = None /\ ~fr[i].homing
  /\ fr[i].missed /\ "kill" \in fr[i].rolls /\ fr[i].tid = None

\* C13: a pure miss is answered "missed, hit a tree": the shooter's persisted
\* experience is 2 lower, bullets 1 lower and missed 1 higher than loaded,
\* weapon_confiscated is as loaded, and no player's death count changed.
C13_PureMiss ==
  \A i \in Inv :
    PureMiss(i) =>
      /\ fr[i].out = {"missed_tree"}
      /\ Persisted(i).experience = fr[i].h0.experience - 2
      /\ Persisted(i).bullets = fr[i].h0.bullets - 1
      /\ Persisted(i).shooting_stats.missed =
           fr[i].h0.shooting_stats.missed + 1
      /\ Persisted(i).weapon_confiscated = fr[i].h0.weapon_confiscated
      /\ \A q \in Players :
           db[q].active_powerups.dead = fr[i].db0[q].active_powerups.dead

\* The scenario of the claim: one bullet, experience 0.
C13_Witness ==
  /\ PureMiss(1) /\ fr[1].h0.bullets = 1 /\ fr[1].h0.experience = 0
  /\ Persisted(1).bullets = 0 /\ Persisted(1).experience = -2

DoneRevive(i) == fr[i].op = "revive" /\ fr[i].pc = "done"

\* What a finished revive left of the record it loaded, k being the death
\* count it found.
ReviveDone(i) ==
  LET k == fr[i].h0.active_powerups.dead
      s0 == fr[i].h0.shooting_stats
      s == Persisted(i).shooting_stats
  IN IF k > 0
     THEN /\ Persisted(i).active_powerups.dead = 0
          /\ s.brains_eaten = s0.brains_eaten + k
          /\ s.max_brains_eaten_at_once = Max(s0.max_brains_eaten_at_once, k)
          /\ s.max_brains_eaten_at_once >= k
     ELSE Persisted(i) =
            [fr[i].h0 EXCEPT !.shooting_stats.useless_revives = @ + 1]

\* C14: a revive of a player who died k > 0 times sets dead to 0, adds k to
\* brains_eaten and makes max_brains_eaten_at_once the larger of its value
\* and k; a revive of a living player changes useless_revives alone; and no
\* step of any command lowers a persisted max_brains_eaten_at_once.
C14_Revive ==
  /\ [](\A i \in Inv : DoneRevive(i) => ReviveDone(i))
  /\ [][\A p \in Players :
          db'[p].shooting_stats.max_brains_eaten_at_once >=
            db[p].shooting_stats.max_brains_eaten_at_once]_vars

\* One death eaten by a player whose largest meal was three.
C14_Witness ==
  /\ DoneRevive(1) /\ fr[1].h0.active_powerups.dead = 1
  /\ fr[1].h0.shooting_stats.max_brains_eaten_at_once = 3
  /\ Persisted(1).shooting_stats.max_brains_eaten_at_once = 3
  /\ Persisted(1).shooting_stats.brains_eaten = 4
  /\ Persisted(1).active_powerups.dead = 0

DoneReload(i) == fr[i].op = "reload" /\ fr[i].pc = "done"

\* A finished reload that found no bullet and no magazine in a weapon that
\* was neither confiscated nor jammed.
ReloadBare(i) ==
  /\ DoneReload(i)
  /\ fr[i].h0.bullets = 0 /\ fr[i].h0.magazines = 0
  /\ ~fr[i].h0.weapon_confiscated /\ ~fr[i].h0.weapon_jammed

\* C15: a reload with no bullet and no magazine, the weapon neither
\* confiscated nor jammed, leaves the persisted record as loaded but for
\* unneeded_reloads, one higher; bullets and magazines stay 0.
C15_ReloadNothing ==
  \A i \in Inv :
    ReloadBare(i) =>
      /\ Persisted(i) =
           [fr[i].h0 EXCEPT !.shooting_stats.unneeded_reloads = @ + 1]
      /\ Persisted(i).bullets = 0 /\ Persisted(i).magazines = 0
      /\ fr[i].out = {"no_magazines"}

C15_Witness ==
  /\ ReloadBare(1) /\ fr[1].out = {"no_magazines"}
  /\ fr[1].h0.shooting_stats.unneeded_reloads = 0
  /\ Persisted(1).shooting_stats.unneeded_reloads = 1

\* The draws for which a trial with chance luck_pct succeeds.
LuckyDraws(luck_pct) == {d \in LuckDraws : compute_luck(luck_pct, d)}

\* C16: the trial draws from 1..100 and succeeds exactly when the draw is at
\* most luck_pct: never for luck_pct <= 0, always for luck_pct >= 100, and
\* for luck_pct of the 100 draws in between.
C16_ComputeLuck ==
  /\ trial.drawn =>
       /\ trial.current \in 1..100
       /\ trial.result <=> (trial.current <= trial.luck_pct)
       /\ trial.luck_pct <= 0 => ~trial.result
       /\ trial.luck_pct >= 100 => trial.result
  /\ (0 < trial.luck_pct /\ trial.luck_pct < 100) =>
       Cardinality(LuckyDraws(trial.luck_pct)) = trial.luck_pct

\* The last draw that still succeeds.
C16_Witness ==
  /\ trial.drawn /\ trial.luck_pct = 50 /\ trial.current = 50 /\ trial.result

\* The command of slot i was sent by a player whose record counts a human
\* death resolved by an earlier bang of theirs.
AfterKill(i) ==
  /\ fr[i].pc \notin {"idle"} /\ fr[i].out # {"not_ready"}
  /\ fr[i].h0.shooting_stats.killed >= 1

\* C17: no step of bang, reload, hug or revive turns a persisted
\* weapon_confiscated from true to false; a bang sent after the shooter's bang
\* resolved a human death makes no trial and spends no bullet, ending at the
\* confiscated check or an earlier one, and a reload sent after it is refused.
C17_ConfiscationStays ==
  /\ [][\A q \in Players :
          db[q].weapon_confiscated => db'[q].weapon_confiscated]_vars
  /\ [](\A i \in Inv :
          AfterKill(i) =>
            /\ fr[i].h0.weapon_confiscated
            /\ fr[i].op = "bang" =>
                 /\ fr[i].rolls = {} /\ fr[i].tid = None
                 /\ fr[i].h.bullets = fr[i].h0.bullets
                 /\ fr[i].pc = "done" =>
                      fr[i].out \in {{"dead"}, {"wet"}, {"confiscated"}}
            /\ (fr[i].op = "reload" /\ fr[i].pc = "done") =>
                 /\ fr[i].out = {"reload_confiscated"}
                 /\ Persisted(i).bullets = fr[i].h0.bullets
                 /\ Persisted(i).magazines = fr[i].h0.magazines)

\* C18: a bang or hug whose lookup of the pending target failed does not
\* fail: it ends as if no target were pending (detector-stopped or no-target
\* for bang, hugged-nothing for hug) and that outcome is persisted.
C18_TargetDownDegrades ==
  \A i \in Inv :
    fr[i].target_down =>
      /\ fr[i].pc # "failed" /\ ~fr[i].raised
      /\ fr[i].pc = "done" =>
           /\ fr[i].out \in
                {{"detector_stopped"}, {"no_target"}, {"hugged_nothing"}}
           /\ Persisted(i) = fr[i].h

\* The persisted records had every save of the bang of slot i succeeded.
Complete(i) ==
  LET f == fr[i]
      d1 == [f.db0 EXCEPT ![f.player] = f.h]
  IN IF f.tid \notin {None, f.player} THEN [d1 EXCEPT ![f.tid] = f.t] ELSE d1

\* C19: a bang stopped by a save that raised leaves the persisted records
\* exactly as the command found them or exactly as its complete outcome
\* makes them; the second save of the clean-hit path is one such save.
C19_NoPartialMutation ==
  \A i \in Inv :
    (fr[i].op = "bang" /\ fr[i].pc = "failed") =>
      db = fr[i].db0 \/ db = Complete(i)

\* C20: a private message from a user who was blocked before it arrived is
\* not forwarded and creates no ticket channel or webhook for them.
C20_BlockedStaysOut ==
  (pm.last.kind = "dm" /\ pm.last.blocked) =>
    ~pm.last.forwarded /\ ~pm.last.created

\* A finished bang that made the accuracy roll.
Aimed(i) == DoneBang(i) /\ "accuracy" \in fr[i].rolls

\* The bang of slot i went through the friendly-fire / murder sub-resolution.
KillResolved(i) ==
  fr[i].tid # None \/ "kill" \in fr[i].rolls \/ fr[i].out = {"missed_tree"}

\* The bang of slot i took the clean-hit path.
CleanPath(i) ==
  fr[i].out \in {{"hit_delivered"}, {"detector_stopped"}, {"no_target"}}

\* C21: a bang that made the accuracy roll goes through the friendly-fire /
\* murder sub-resolution exactly when it missed with no target named or did
\* not miss a named target; it takes the clean-hit path only with no target
\* named and no miss, and with a target named it delivers no hit.
C21_BranchAndCleanPath ==
  \A i \in Inv :
    Aimed(i) =>
      /\ KillResolved(i) <=>
           ((fr[i].missed /\ fr[i].named = None)
              \/ (fr[i].named # None /\ ~fr[i].missed) \/ fr[i].homing)
      /\ CleanPath(i) => (fr[i].named = None /\ ~fr[i].missed)
      /\ fr[i].named # None => "hit_delivered" \notin fr[i].out

\* C22: a bang that resolved a death counts one murder for the shooter when
\* the victim was named and is another player, and none when the shooter is
\* the victim (named or by a homing bullet) or the victim was not named.
C22_MurderStatistic ==
  \A i \in Inv :
    (DoneBang(i) /\ fr[i].tid # None) =>
      Persisted(i).shooting_stats.murders =
        fr[i].h0.shooting_stats.murders
          + (IF fr[i].named # None /\ fr[i].tid # fr[i].player /\ ~fr[i].homing
             THEN 1 ELSE 0)

\* The two reliability trials of the shot, by their draws.
R1 ==
  compute_luck(get_level_info(fr[1].h0.experience).reliability, trial.d1)

R2 ==
  compute_luck(get_level_info(fr[1].h0.experience).reliability, trial.d2)

\* The bang passed the gate, made its jam roll and ended.
JamRolled == DoneBang(1) /\ trial.fired /\ "jam" \in fr[1].rolls

NotJammed == fr[1].out # {"jam_roll_failed"}

\* C23: the shot is not jammed iff r1 or r2 with grease, iff r1 and r2
\* without grease and with sand, iff r1 otherwise; one charge of sand is
\* taken exactly when there is sand and no grease, and the persisted record
\* shows it whether the roll succeeded or failed.
C23_JamRoll ==
  JamRolled =>
    LET grease == is_powerup_active(fr[1].h0, "grease")
        sand == fr[1].h0.active_powerups.sand
    IN /\ grease => (NotJammed <=> (R1 \/ R2))
       /\ (~grease /\ sand > 0) => (NotJammed <=> (R1 /\ R2))
       /\ (~grease /\ sand <= 0) => (NotJammed <=> R1)
       /\ Persisted(1).active_powerups.sand =
            sand - (IF ~grease /\ sand > 0 THEN 1 ELSE 0)
       /\ ~NotJammed => Persisted(1).bullets = fr[1].h0.bullets

\* Sand spoils a shot whose first trial succeeded, and is spent.
C23_Witness ==
  /\ JamRolled /\ ~NotJammed /\ R1 /\ ~R2
  /\ fr[1].h0.active_powerups.sand = 1
  /\ Persisted(1).active_powerups.sand = 0 /\ Persisted(1).weapon_jammed

\* A finished bang that made the accuracy roll with a homing bullet loaded.
HomingShot(i) == Aimed(i) /\ fr[i].h0.active_powerups.homing_bullets >= 1

\* C24: a bang that reaches the accuracy roll with a homing bullet spends
\* exactly one, whatever the roll and the named target, and ends as a homing
\* self-kill: the shooter is the victim (dead + 1, got_killed + 1, weapon
\* confiscated), homing_kills + 1, experience - 17, one save, and no other
\* player's record changed.
C24_HomingOverride ==
  \A i \in Inv :
    HomingShot(i) =>
      LET h0 == fr[i].h0
          h == Persisted(i)
      IN /\ fr[i].out = {"homing_self_kill"}
         /\ h.active_powerups.homing_bullets =
              h0.active_powerups.homing_bullets - 1
         /\ fr[i].tid = fr[i].player
         /\ h.active_powerups.dead = h0.active_powerups.dead + 1
         /\ h.shooting_stats.got_killed = h0.shooting_stats.got_killed + 1
         /\ h.weapon_confiscated
         /\ h.shooting_stats.homing_kills = h0.shooting_stats.homing_kills + 1
         /\ h.experience = h0.experience - 17
         /\ fr[i].alias /\ fr[i].pending = {}
         /\ \A q \in Players \ {fr[i].player} : db[q] = fr[i].db0[q]

\* A homing bullet that turns back from a named player on a draw that misses.
C24_Witness ==
  /\ HomingShot(1) /\ trial.fired /\ fr[1].named = 2
  /\ ~compute_luck(Accuracy2(fr[1].h0), 2 * trial.d3)
  /\ fr[1].out = {"homing_self_kill"}
  /\ Persisted(1).active_powerups.dead = 1 /\ db[2].active_powerups.dead = 0

\* The base accuracies the claim speaks of.
Accuracies == 0..100

\* Twice the threshold as the claim words it: a, halved under a mirror, then
\* raised by the integer part of a third of what is missing to 100.
Claimed2(a, mirror, sight) ==
  CASE ~mirror /\ ~sight -> 2 * a
    [] mirror /\ ~sight -> a
    [] ~mirror /\ sight -> 2 * (a + ((100 - a) \div 3))
    [] mirror /\ sight -> a + 2 * ((200 - a) \div 6)

\* One charge less of a modifier that was in force.
OneLess(n) == IF n > 0 THEN n - 1 ELSE n

\* C25: the threshold of the accuracy roll is the base accuracy, halved by a
\* mirror, then raised by the sight, and stays within 0..100 for every base
\* accuracy of 0..100; a shot that makes the roll without a homing bullet
\* misses exactly when the draw is above it; and every shot that makes the
\* roll takes one charge of each modifier in force, hit or miss.
C25_AccuracyModifiers ==
  /\ \A a \in Accuracies, mirror \in BOOLEAN, sight \in BOOLEAN :
       /\ Threshold2(a, mirror, sight) = Claimed2(a, mirror, sight)
       /\ Threshold2(a, mirror, sight) \in 0..200
  /\ (Aimed(1) /\ trial.fired) =>
       /\ ~fr[1].homing =>
            (fr[1].missed <=> 2 * trial.d3 > Accuracy2(fr[1].h0))
       /\ Persisted(1).active_powerups.mirror =
            OneLess(fr[1].h0.active_powerups.mirror)
       /\ Persisted(1).active_powerups.sight =
            OneLess(fr[1].h0.active_powerups.sight)

\* A mirror and a sight together: 55 becomes 27.5, then 51.5, and a draw of
\* 50 hits; both charges are gone.
C25_Witness ==
  /\ Aimed(1) /\ trial.fired /\ trial.d3 = 50 /\ ~fr[1].missed /\ ~fr[1].homing
  /\ fr[1].h0.active_powerups.mirror = 1 /\ fr[1].h0.active_powerups.sight = 1
  /\ Accuracy2(fr[1].h0) = 103
  /\ Persisted(1).active_powerups.mirror = 0
  /\ Persisted(1).active_powerups.sight = 0

\* The record and the answer the claim gives for a reload of record h0.
ReloadClaimed(h0) ==
  IF h0.weapon_confiscated
  THEN <<[h0 EXCEPT !.shooting_stats.reloads_when_confiscated = @ + 1],
         "reload_confiscated">>
  ELSE IF h0.weapon_jammed
  THEN <<[h0 EXCEPT !.weapon_jammed = FALSE], "unjammed">>
  ELSE IF h0.bullets = 0 /\ h0.magazines >= 1
  THEN <<[h0 EXCEPT !.shooting_stats.reloads = @ + 1,
                    !.magazines = @ - 1,
                    !.bullets = get_level_info(h0.experience).bullets],
         "reloaded">>
  ELSE IF h0.bullets > 0
  THEN <<[h0 EXCEPT !.shooting_stats.unneeded_reloads = @ + 1], "unneeded">>
  ELSE <<[h0 EXCEPT !.shooting_stats.unneeded_reloads = @ + 1],
         "no_magazines">>

\* C26: a reload takes the first case that holds of confiscated, jammed,
\* empty with a magazine, loaded, no magazine, and exactly one: the first,
\* fourth and fifth change one statistic, the second clears weapon_jammed
\* alone, the third takes one magazine and fills bullets to the capacity of
\* the player's experience.
C26_ReloadCases ==
  \A i \in Inv :
    DoneReload(i) =>
      /\ fr[i].h0.bullets >= 0 /\ fr[i].h0.magazines >= 0
      /\ Persisted(i) = ReloadClaimed(fr[i].h0)[1]
      /\ fr[i].out = {ReloadClaimed(fr[i].h0)[2]}

\* A jammed, empty weapon is unjammed and still empty after one reload.
C26_Witness ==
  /\ DoneReload(1) /\ fr[1].h0.weapon_jammed /\ fr[1].h0.bullets = 0
  /\ fr[1].h0.magazines = 1 /\ fr[1].out = {"unjammed"}
  /\ ~Persisted(1).weapon_jammed /\ Persisted(1).bullets = 0
  /\ Persisted(1).magazines = 1

\* C27: a revive that finds a death count of k > 0 adds k to the 'revives'
\* statistic and k to the 'brains_eaten' statistic.
C27_RevivesByCount ==
  \A i \in Inv :
    (DoneRevive(i) /\ fr[i].h0.active_powerups.dead > 0) =>
      LET k == fr[i].h0.active_powerups.dead
          s0 == fr[i].h0.shooting_stats
          s == Persisted(i).shooting_stats
      IN /\ s.revives = s0.revives + k
         /\ s.brains_eaten = s0.brains_eaten + k

\* C28 as stated: a player who died k >= 2 times is still dead after one
\* revive.
C28_EachDeathRevived ==
  \A i \in Inv :
    (DoneRevive(i) /\ fr[i].h0.active_powerups.dead >= 2) =>
      Persisted(i).active_powerups.dead > 0

\* C28: one revive clears every outstanding death: whatever the count k >= 1
\* it found, the player has dead = 0 afterwards and passes the dead check of
\* the gate.
C28_OneReviveClearsAll ==
  \A i \in Inv :
    (DoneRevive(i) /\ fr[i].h0.active_powerups.dead >= 1) =>
      /\ Persisted(i).active_powerups.dead = 0
      /\ \A now \in Times : Gate(Persisted(i), now) # "dead"

\* Two deaths cleared by a single revive.
C28_Witness ==
  /\ DoneRevive(1) /\ fr[1].h0.active_powerups.dead = 2
  /\ Persisted(1).active_powerups.dead = 0
  /\ fr[1].reply = "revived"

DoneHug(i) == fr[i].op = "hug" /\ fr[i].pc = "done"

\* The end a hug of record h0 with the given named target must take; an
\* unnamed hug of a living player ends on what the target lookup gives.
HugEndsFor(h0, named) ==
  IF h0.active_powerups.dead > 0 THEN {<<"hug_dead", "when_dead">>}
  ELSE IF named # None THEN {<<"hugged_player", "players">>}
  ELSE {<<"hug_delivered", "none">>, <<"hugged_nothing", "nothing">>}

\* C30: a hug the engine resolves ends in exactly one of dead abort
\* (when_dead + 1), hugged a player (players + 1, no target lookup), hug
\* delivered to the pending target, hugged nothing (nothing + 1); it changes
\* nothing of the hugger's record but that one statistic, and no other
\* player's record.
C30_HugFrame ==
  \A i \in Inv :
    /\ (fr[i].op = "hug" /\ fr[i].pc = "query") =>
         (fr[i].named = None /\ fr[i].h0.active_powerups.dead = 0)
    /\ (DoneHug(i) /\ fr[i].out # {"not_ready"}) =>
         /\ \E e \in HugEndsFor(fr[i].h0, fr[i].named) :
              /\ fr[i].out = {e[1]}
              /\ Persisted(i) = IF e[2] = "none" THEN fr[i].h0
                                ELSE HugStat(fr[i].h0, e[2])
         /\ \A q \in Players \ {fr[i].player} : db[q] = fr[i].db0[q]

\* A living player hugs a named player: one statistic moves, nothing else.
C30_Witness ==
  /\ DoneHug(1) /\ fr[1].named = 2 /\ fr[1].out = {"hugged_player"}
  /\ Persisted(1).hugged.players = fr[1].h0.hugged.players + 1
  /\ Persisted(1).bullets = fr[1].h0.bullets

\* A bang that loaded a jammed weapon.
JammedBang(i) ==
  /\ fr[i].op = "bang" /\ fr[i].pc # "idle" /\ fr[i].out # {"not_ready"}
  /\ fr[i].h0.weapon_jammed

\* C29: a persisted weapon_jammed goes from true to false only by the save
\* of a reload of that player that found the weapon not confiscated, never
\* by a step of bang, hug or revive; and a bang that finds the weapon jammed
\* spends no bullet, makes no roll, touches no victim or target and ends at
\* the jammed check or an earlier one.
C29_JamUntilReload ==
  /\ [][\A q \in Players :
          (db[q].weapon_jammed /\ ~db'[q].weapon_jammed) =>
            \E i \in Inv :
              /\ fr[i].op = "reload" /\ fr[i].player = q
              /\ fr[i].pc = "save" /\ fr'[i].pc = "done"
              /\ ~fr[i].h0.weapon_confiscated]_vars
  /\ [](\A i \in Inv :
          JammedBang(i) =>
            /\ fr[i].rolls = {} /\ fr[i].tid = None
            /\ fr[i].h.bullets = fr[i].h0.bullets
            /\ fr[i].pc = "done" =>
                 fr[i].out \in {{"dead"}, {"wet"}, {"confiscated"},
                                {"sabotaged"}, {"jammed"}})

\* The powerups kept as counts of charges.
Counted == {"sand", "mirror", "sight", "homing_bullets", "detector"}

\* A bang that ended at the startup check or at the gate: the jam roll, the
\* first thing past the gate, was not made.
GateStopped(i) ==
  fr[i].op = "bang" /\ fr[i].pc # "idle" /\ "jam" \notin fr[i].rolls

\* C31: no counted powerup of a persisted record is negative; a bang takes at
\* most one charge of each, in its working copy and in the record it leaves;
\* a bang stopped at the gate takes none.
C31_CountedPowerups ==
  /\ \A p \in Players, c \in Counted : db[p].active_powerups[c] >= 0
  /\ \A i \in Inv, c \in Counted :
       (fr[i].op = "bang" /\ fr[i].pc # "idle") =>
         /\ fr[i].h.active_powerups[c] >= 0
         /\ fr[i].h0.active_powerups[c] - fr[i].h.active_powerups[c] \in {0, 1}
         /\ fr[i].pc = "done" =>
              fr[i].db0[fr[i].player].active_powerups[c]
                - Persisted(i).active_powerups[c] \in {0, 1}
         /\ GateStopped(i) =>
              /\ fr[i].h.active_powerups[c] = fr[i].h0.active_powerups[c]
              /\ fr[i].pc = "done" =>
                   Persisted(i).active_powerups[c]
                     = fr[i].db0[fr[i].player].active_powerups[c]

\* A bang that took the last charge of sand and the last of the mirror.
C31_Witness ==
  /\ DoneBang(1) /\ "accuracy" \in fr[1].rolls
  /\ fr[1].h0.active_powerups.sand = 1 /\ fr[1].h0.active_powerups.mirror = 1
  /\ Persisted(1).active_powerups.sand = 0
  /\ Persisted(1).active_powerups.mirror = 0

\* Slot 1 ran a bang that killed another player, and slot 2 ran, while that
\* bang was in flight, a command of the victim that loaded the victim's
\* record, killed nobody and did not revive a dead player; both have ended.
KilledWhileBusy ==
  /\ DoneBang(1) /\ fr[1].tid # None /\ fr[1].tid # fr[1].player
  /\ fr[2].pc = "done" /\ fr[2].player = fr[1].tid
  /\ fr[2].out # {"not_ready"} /\ fr[2].tid = None
  /\ fr[2].h0.active_powerups.dead = fr[1].t0.active_powerups.dead
  /\ fr[2].op = "revive" => fr[2].h0.active_powerups.dead = 0

\* A record with the two fields a death writes left out.
DeathMasked(h) ==
  [h EXCEPT !.active_powerups.dead = 0, !.shooting_stats.got_killed = 0]

\* C32: when a bang kills a player whose own command runs at the same time,
\* the victim's persisted record ends with the death (dead + 1) and with what
\* the victim's own command wrote.
C32_DeathNotLost ==
  KilledWhileBusy =>
    /\ db[fr[1].tid].active_powerups.dead = fr[1].t0.active_powerups.dead + 1
    /\ DeathMasked(db[fr[1].tid]) = DeathMasked(fr[2].h)

\* C33: however the handling of private messages of one user interleaves,
\* the category holds at most one channel named with the user's id, each
\* ticket channel got the opening notice at most once, and a channel that
\* get_or_create_channel returned has its entry in the webhook cache.
C33_OneTicketPerUser ==
  /\ \A user \in Users : Cardinality(ChannelsOf(user)) <= 1
  /\ \A k \in DOMAIN tk.channels : tk.channels[k].notices <= 1
  /\ \A m \in Msgs :
       tk.co[m].pc = "got" => tk.channels[tk.co[m].ch].cached

====
